---------------------------- MODULE Spec2Model ----------------------------
(* Endpoint lifecycle core of the CNI network package (network/endpoint.go). *)
(* The state is one network's endpoint directory (nw.Endpoints) together    *)
(* with a record of the last call made on it and what that call returned.   *)
(* Strings that the code takes apart (pod names) are sequences of           *)
(* characters; opaque strings (identifiers, sandbox keys) are TLA+ strings. *)
EXTENDS Integers, Sequences, FiniteSets, TLC

VARIABLES Endpoints, ret

vars == <<Endpoints, ret>>

(***************************************************************************)
(* Bounds and input sets                                                   *)
(***************************************************************************)

\* Number of endpoint identifiers a directory can hold in the model.
NumIds == 2

\* Largest number of hyphen-delimited segments of a modelled pod name.
MaxSegs == 3

IdNames == <<"e1", "e2", "e3", "e4">>

Ids == {IdNames[i] : i \in 1..NumIds}

\* Sandbox keys handed to attach; the empty string is a legal argument.
SandboxKeys == {"", "k1", "k2"}

\* Route lists ([]RouteInfo), routes being opaque values.
RouteLists == {<<>>, <<"r1", "r2">>}

PodNameSpaces == {"default", "kube-system"}

(***************************************************************************)
(* Values                                                                  *)
(***************************************************************************)

\* Go's nil error and the package's error values.
NoErr == "nil"

errEndpointNotFound == "errEndpointNotFound"

errEndpointInUse == "errEndpointInUse"

errEndpointNotInUse == "errEndpointNotInUse"

errMultipleEndpointsFound == "errMultipleEndpointsFound"

\* An error surfaced by a platform collaborator; its content is opaque.
PlatformFailure == "PlatformFailure"

\* A *endpoint is a sequence: empty for nil, <<e>> for a pointer to e.
Nil == <<>>

(***************************************************************************)
(* strings.Split / strings.Join on "-" and GetPodNameWithoutSuffix         *)
(***************************************************************************)

Hyphen == "-"

HyphenAt(s) == {i \in 1..Len(s) : s[i] = Hyphen}

FirstHyphen(s) == CHOOSE i \in HyphenAt(s) : \A j \in HyphenAt(s) : i <= j

RECURSIVE Split(_)
Split(s) ==
    IF HyphenAt(s) = {}
    THEN <<s>>
    ELSE <<SubSeq(s, 1, FirstHyphen(s) - 1)>>
         \o Split(SubSeq(s, FirstHyphen(s) + 1, Len(s)))

RECURSIVE Join(_)
Join(segs) ==
    IF Len(segs) = 0 THEN <<>>
    ELSE IF Len(segs) = 1 THEN segs[1]
    ELSE segs[1] \o <<Hyphen>> \o Join(Tail(segs))

\* Mutant: drops one trailing segment instead of two.
GetPodNameWithoutSuffix_one(podName) ==
    LET nameSplit == Split(podName)
    IN  IF Len(nameSplit) > 2
        THEN Join(SubSeq(nameSplit, 1, Len(nameSplit) - 1))
        ELSE podName

GetPodNameWithoutSuffix(podName) ==
    LET nameSplit == Split(podName)
    IN  IF Len(nameSplit) > 2
        THEN Join(SubSeq(nameSplit, 1, Len(nameSplit) - 2))
        ELSE podName

RECURSIVE HasPrefix(_, _)
\* strings.HasPrefix
HasPrefix(str, prefix) ==
    IF Len(prefix) = 0 THEN TRUE
    ELSE IF Len(str) = 0 THEN FALSE
    ELSE Head(str) = Head(prefix) /\ HasPrefix(Tail(str), Tail(prefix))

\* Mutant: without the exact-match flag, the stored name need only start
\* with the query.
podNameMatches_prefix(source, actualValue, doExactMatch) ==
    IF doExactMatch
    THEN source = actualValue
    ELSE HasPrefix(source, actualValue)

podNameMatches(source, actualValue, doExactMatch) ==
    IF doExactMatch
    THEN source = actualValue
    ELSE actualValue = GetPodNameWithoutSuffix(source)

\* n segments "a" followed by a last segment: "a", "b", "a-a", "a-b", ...
SegsA(n) == [i \in 1..n |-> <<"a">>]

PodNames ==
    {<<>>} \cup {Join(SegsA(n) \o <<l>>) : n \in 0..(MaxSegs - 1),
                                           l \in {<<"a">>, <<"b">>}}

(***************************************************************************)
(* EndpointInfo inputs and the endpoint record                             *)
(***************************************************************************)

\* Two desired states per identifier, differing in every field but the id.
Variants == {"v1", "v2"}

EpInfoOf(id, v) ==
    IF v = "v1"
    THEN [EndpointID |-> id, ContainerID |-> "c1", NICType |-> "InfraNIC",
          PODName |-> <<"a", "-", "a", "-", "a">>, PODNameSpace |-> "default",
          IPAddresses |-> <<"10.0.0.4/24">>, Gateways |-> <<"10.0.0.1">>,
          Routes |-> <<>>, HNSEndpointID |-> "", HostIfName |-> "veth1"]
    ELSE [EndpointID |-> id, ContainerID |-> "c2", NICType |-> "DelegatedVMNIC",
          PODName |-> <<"a", "-", "a", "-", "b">>, PODNameSpace |-> "kube-system",
          IPAddresses |-> <<"10.0.0.5/24">>, Gateways |-> <<"10.0.0.2">>,
          Routes |-> <<"r1", "r2">>, HNSEndpointID |-> "hns2",
          HostIfName |-> ""]

EpInfos == {EpInfoOf(id, v) : id \in Ids, v \in Variants}

\* Platform construction step: fails, or returns the endpoint realised from
\* the desired state, not yet attached to a sandbox.
newEndpointImpl(epInfo, implErr) ==
    IF implErr # NoErr
    THEN [ep |-> Nil, err |-> implErr]
    ELSE [ep |-> <<[Id |-> epInfo.EndpointID,
                    HnsId |-> epInfo.HNSEndpointID,
                    SandboxKey |-> "",
                    HostIfName |-> epInfo.HostIfName,
                    IPAddresses |-> epInfo.IPAddresses,
                    Gateways |-> epInfo.Gateways,
                    Routes |-> epInfo.Routes,
                    ContainerID |-> epInfo.ContainerID,
                    PODName |-> epInfo.PODName,
                    PODNameSpace |-> epInfo.PODNameSpace,
                    NICType |-> epInfo.NICType]>>,
          err |-> NoErr]

\* Platform update step: fails, or returns an endpoint for the existing
\* identifier carrying the target's fields and the reconciled route list.
updateEndpointImpl(existingEpInfo, targetEpInfo, routes, implErr) ==
    IF implErr # NoErr
    THEN [ep |-> Nil, err |-> implErr]
    ELSE [ep |-> <<[newEndpointImpl(targetEpInfo, NoErr).ep[1]
                      EXCEPT !.Id = existingEpInfo.EndpointID,
                             !.Routes = routes]>>,
          err |-> NoErr]

(***************************************************************************)
(* Directory operations                                                    *)
(***************************************************************************)

\* nw.Endpoints[id] = ep
Insert(eps, id, ep) ==
    [i \in (DOMAIN eps) \cup {id} |-> IF i = id THEN ep ELSE eps[i]]

\* delete(nw.Endpoints, id)
Remove(eps, id) == [i \in (DOMAIN eps) \ {id} |-> eps[i]]

getEndpoint(eps, endpointId) ==
    IF endpointId \in DOMAIN eps
    THEN [ep |-> <<eps[endpointId]>>, err |-> NoErr]
    ELSE [ep |-> Nil, err |-> errEndpointNotFound]

\* Mutant: on a platform failure, rolls back by dropping the entry stored
\* under the requested identifier.
newEndpoint_rollback(eps, epInfo, implRes) ==
    IF implRes.err # NoErr
    THEN [Endpoints |-> Remove(eps, epInfo.EndpointID), ep |-> Nil,
          err |-> implRes.err]
    ELSE [Endpoints |-> Insert(eps, implRes.ep[1].Id, implRes.ep[1]),
          ep |-> implRes.ep, err |-> NoErr]

\* Mutant: files the endpoint under its container identifier.
newEndpoint_byContainer(eps, epInfo, implRes) ==
    IF implRes.err # NoErr
    THEN [Endpoints |-> eps, ep |-> Nil, err |-> implRes.err]
    ELSE [Endpoints |-> Insert(eps, implRes.ep[1].ContainerID, implRes.ep[1]),
          ep |-> implRes.ep, err |-> NoErr]

\* Mutant: re-registration keeps the binding and routes of the entry
\* already stored under the identifier.
newEndpoint_merge(eps, epInfo, implRes) ==
    IF implRes.err # NoErr
    THEN [Endpoints |-> eps, ep |-> Nil, err |-> implRes.err]
    ELSE IF implRes.ep[1].Id \in DOMAIN eps
    THEN [Endpoints |->
              Insert(eps, implRes.ep[1].Id,
                     [implRes.ep[1] EXCEPT
                         !.SandboxKey = eps[implRes.ep[1].Id].SandboxKey,
                         !.Routes = eps[implRes.ep[1].Id].Routes]),
          ep |-> implRes.ep, err |-> NoErr]
    ELSE [Endpoints |-> Insert(eps, implRes.ep[1].Id, implRes.ep[1]),
          ep |-> implRes.ep, err |-> NoErr]

\* implRes is what nw.newEndpointImpl returned.
newEndpoint(eps, epInfo, implRes) ==
    IF implRes.err # NoErr
    THEN [Endpoints |-> eps, ep |-> Nil, err |-> implRes.err]
    ELSE [Endpoints |-> Insert(eps, implRes.ep[1].Id, implRes.ep[1]),
          ep |-> implRes.ep, err |-> NoErr]

\* Mutant: an endpoint still bound to a sandbox is not torn down.
deleteEndpoint_detachedOnly(eps, endpointID, implErr) ==
    IF getEndpoint(eps, endpointID).err # NoErr
    THEN [Endpoints |-> eps, impl |-> "notCalled", err |-> NoErr]
    ELSE IF eps[endpointID].SandboxKey # ""
    THEN [Endpoints |-> eps, impl |-> "notCalled", err |-> errEndpointInUse]
    ELSE IF implErr # NoErr
    THEN [Endpoints |-> eps, impl |-> "failed", err |-> implErr]
    ELSE [Endpoints |-> Remove(eps, endpointID), impl |-> "ok", err |-> NoErr]


\* Mutant: removes the entry before the platform teardown is known to
\* have succeeded.
deleteEndpoint_early(eps, endpointID, implErr) ==
    IF getEndpoint(eps, endpointID).err # NoErr
    THEN [Endpoints |-> eps, impl |-> "notCalled", err |-> NoErr]
    ELSE [Endpoints |-> Remove(eps, endpointID),
          impl |-> IF implErr # NoErr THEN "failed" ELSE "ok",
          err |-> implErr]

\* Mutant: reports the failed lookup to the caller.
deleteEndpoint_strict(eps, endpointID, implErr) ==
    IF getEndpoint(eps, endpointID).err # NoErr
    THEN [Endpoints |-> eps, impl |-> "notCalled",
          err |-> getEndpoint(eps, endpointID).err]
    ELSE IF implErr # NoErr
    THEN [Endpoints |-> eps, impl |-> "failed", err |-> implErr]
    ELSE [Endpoints |-> Remove(eps, endpointID), impl |-> "ok", err |-> NoErr]

\* Mutant: never removes the entry.
deleteEndpoint_keep(eps, endpointID, implErr) ==
    IF getEndpoint(eps, endpointID).err # NoErr
    THEN [Endpoints |-> eps, impl |-> "notCalled", err |-> NoErr]
    ELSE IF implErr # NoErr
    THEN [Endpoints |-> eps, impl |-> "failed", err |-> implErr]
    ELSE [Endpoints |-> eps, impl |-> "ok", err |-> NoErr]

\* implErr is what nw.deleteEndpointImpl returns if it is called; impl
\* tells whether it was called and how it ended.
deleteEndpoint(eps, endpointID, implErr) ==
    IF getEndpoint(eps, endpointID).err # NoErr
    THEN [Endpoints |-> eps, impl |-> "notCalled", err |-> NoErr]
    ELSE IF implErr # NoErr
    THEN [Endpoints |-> eps, impl |-> "failed", err |-> implErr]
    ELSE [Endpoints |-> Remove(eps, endpointID), impl |-> "ok", err |-> NoErr]

(***************************************************************************)
(* Endpoint operations                                                     *)
(***************************************************************************)

\* Mutant: an attach on a bound endpoint reports the error but still
\* writes its key.
attach_clobber(ep, sandboxKey) ==
    IF ep.SandboxKey # ""
    THEN [ep |-> [ep EXCEPT !.SandboxKey = sandboxKey],
          err |-> errEndpointInUse]
    ELSE [ep |-> [ep EXCEPT !.SandboxKey = sandboxKey], err |-> NoErr]


\* Mutant: binds the sandbox without looking at the current binding.
attach_overwrite(ep, sandboxKey) ==
    [ep |-> [ep EXCEPT !.SandboxKey = sandboxKey], err |-> NoErr]

attach(ep, sandboxKey) ==
    IF ep.SandboxKey # ""
    THEN [ep |-> ep, err |-> errEndpointInUse]
    ELSE [ep |-> [ep EXCEPT !.SandboxKey = sandboxKey], err |-> NoErr]

\* Mutant: detaching also drops the endpoint's routes.
detach_dropRoutes(ep) ==
    IF ep.SandboxKey = ""
    THEN [ep |-> ep, err |-> errEndpointNotInUse]
    ELSE [ep |-> [ep EXCEPT !.SandboxKey = "", !.Routes = <<>>],
          err |-> NoErr]


\* Mutant: marks the endpoint as detached instead of clearing the key.
detach_tombstone(ep) ==
    IF ep.SandboxKey = ""
    THEN [ep |-> ep, err |-> errEndpointNotInUse]
    ELSE [ep |-> [ep EXCEPT !.SandboxKey = "detached"], err |-> NoErr]

\* Mutant: clears the binding without looking at it.
detach_unguarded(ep) ==
    [ep |-> [ep EXCEPT !.SandboxKey = ""], err |-> NoErr]

detach(ep) ==
    IF ep.SandboxKey = ""
    THEN [ep |-> ep, err |-> errEndpointNotInUse]
    ELSE [ep |-> [ep EXCEPT !.SandboxKey = ""], err |-> NoErr]

\* Mutant: on an untracked identifier, stores the platform's endpoint.
updateEndpoint_upsert(eps, existingEpInfo, targetEpInfo, implRes) ==
    IF implRes.err # NoErr
    THEN [Endpoints |-> eps, impl |-> "failed", err |-> implRes.err]
    ELSE IF existingEpInfo.EndpointID \notin DOMAIN eps
    THEN [Endpoints |-> Insert(eps, existingEpInfo.EndpointID, implRes.ep[1]),
          impl |-> "ok", err |-> NoErr]
    ELSE [Endpoints |->
              [eps EXCEPT ![existingEpInfo.EndpointID].Routes =
                              implRes.ep[1].Routes],
          impl |-> "ok", err |-> NoErr]

\* Mutant: stores the endpoint the platform returned instead of its routes.
updateEndpoint_replace(eps, existingEpInfo, targetEpInfo, implRes) ==
    IF existingEpInfo.EndpointID \notin DOMAIN eps
    THEN [Endpoints |-> eps, impl |-> "notCalled", err |-> errEndpointNotFound]
    ELSE IF implRes.err # NoErr
    THEN [Endpoints |-> eps, impl |-> "failed", err |-> implRes.err]
    ELSE [Endpoints |-> [eps EXCEPT ![existingEpInfo.EndpointID] =
                                        implRes.ep[1]],
          impl |-> "ok", err |-> NoErr]

\* Mutant: on a platform failure, drops the stored endpoint's routes.
updateEndpoint_clearOnFail(eps, existingEpInfo, targetEpInfo, implRes) ==
    IF existingEpInfo.EndpointID \notin DOMAIN eps
    THEN [Endpoints |-> eps, impl |-> "notCalled", err |-> errEndpointNotFound]
    ELSE IF implRes.err # NoErr
    THEN [Endpoints |-> [eps EXCEPT ![existingEpInfo.EndpointID].Routes = <<>>],
          impl |-> "failed", err |-> implRes.err]
    ELSE [Endpoints |->
              [eps EXCEPT ![existingEpInfo.EndpointID].Routes =
                              implRes.ep[1].Routes],
          impl |-> "ok", err |-> NoErr]

\* implRes is what nm.updateEndpointImpl returns if it is called.
updateEndpoint(eps, existingEpInfo, targetEpInfo, implRes) ==
    IF existingEpInfo.EndpointID \notin DOMAIN eps
    THEN [Endpoints |-> eps, impl |-> "notCalled", err |-> errEndpointNotFound]
    ELSE IF implRes.err # NoErr
    THEN [Endpoints |-> eps, impl |-> "failed", err |-> implRes.err]
    ELSE [Endpoints |->
              [eps EXCEPT ![existingEpInfo.EndpointID].Routes =
                              implRes.ep[1].Routes],
          impl |-> "ok", err |-> NoErr]

(***************************************************************************)
(* Lookup by pod                                                           *)
(***************************************************************************)

\* The orders in which a range over the map may visit its keys.
Orders(S) ==
    {o \in [1..Cardinality(S) -> S] : \A i, j \in DOMAIN o : i # j => o[i] # o[j]}

RECURSIVE RangePOD(_, _, _, _, _, _, _)
RangePOD(eps, order, i, ep, podName, podNameSpace, doExactMatchForPodName) ==
    IF i > Len(order)
    THEN IF ep = Nil
         THEN [ep |-> Nil, err |-> errEndpointNotFound]
         ELSE [ep |-> ep, err |-> NoErr]
    ELSE IF /\ podNameMatches(eps[order[i]].PODName, podName,
                              doExactMatchForPodName)
            /\ eps[order[i]].PODNameSpace = podNameSpace
    THEN IF ep = Nil
         THEN RangePOD(eps, order, i + 1, <<eps[order[i]]>>, podName,
                       podNameSpace, doExactMatchForPodName)
         ELSE [ep |-> Nil, err |-> errMultipleEndpointsFound]
    ELSE RangePOD(eps, order, i + 1, ep, podName, podNameSpace,
                  doExactMatchForPodName)

RECURSIVE RangeFirstPOD(_, _, _, _, _, _)
RangeFirstPOD(eps, order, i, podName, podNameSpace, doExactMatchForPodName) ==
    IF i > Len(order)
    THEN [ep |-> Nil, err |-> errEndpointNotFound]
    ELSE IF /\ podNameMatches(eps[order[i]].PODName, podName,
                              doExactMatchForPodName)
            /\ eps[order[i]].PODNameSpace = podNameSpace
    THEN [ep |-> <<eps[order[i]]>>, err |-> NoErr]
    ELSE RangeFirstPOD(eps, order, i + 1, podName, podNameSpace,
                       doExactMatchForPodName)

\* Mutant: returns the first match of the range.
getEndpointByPOD_first(eps, order, podName, podNameSpace, doExactMatchForPodName) ==
    RangeFirstPOD(eps, order, 1, podName, podNameSpace, doExactMatchForPodName)

\* order is the order in which the range visits the map's keys.
getEndpointByPOD(eps, order, podName, podNameSpace, doExactMatchForPodName) ==
    RangePOD(eps, order, 1, Nil, podName, podNameSpace, doExactMatchForPodName)

(***************************************************************************)
(* The record of the last call                                             *)
(***************************************************************************)

\* op: the call; id: the identifier it was about; key: attach's argument;
\* impl: whether the platform step ran ("notCalled", "ok", "failed");
\* implEp: the endpoint the platform step returned; ep: the *endpoint the
\* call returned; err: the error it returned.
Ret(op, id, key, impl, implEp, ep, err) ==
    [op |-> op, id |-> id, key |-> key, impl |-> impl, implEp |-> implEp,
     ep |-> ep, err |-> err]

\* What the platform update step can do: fail, or return a route list.
UpdateOutcomes ==
    {[err |-> PlatformFailure, routes |-> <<>>]}
        \cup {[err |-> NoErr, routes |-> r] : r \in RouteLists}

ImplOf(implErr) == IF implErr # NoErr THEN "failed" ELSE "ok"

(***************************************************************************)
(* Actions                                                                 *)
(***************************************************************************)

Init ==
    /\ Endpoints = <<>>
    /\ ret = Ret("none", "", "", "notCalled", Nil, Nil, NoErr)

\* old: the entry stored under the requested identifier before the call.
NewEndpoint ==
    \E epInfo \in EpInfos, implErr \in {NoErr, PlatformFailure} :
        LET implRes == newEndpointImpl(epInfo, implErr)
            r == newEndpoint(Endpoints, epInfo, implRes)
        IN  /\ Endpoints' = r.Endpoints
            /\ ret' = Ret("newEndpoint", epInfo.EndpointID, "", ImplOf(implErr),
                          implRes.ep, r.ep, r.err)
                        @@ [old |-> getEndpoint(Endpoints, epInfo.EndpointID).ep]

\* old: the entry the lookup found under the identifier before the call.
DeleteEndpoint ==
    \E endpointID \in Ids, implErr \in {NoErr, PlatformFailure} :
        LET r == deleteEndpoint(Endpoints, endpointID, implErr)
        IN  /\ Endpoints' = r.Endpoints
            /\ ret' = Ret("deleteEndpoint", endpointID, "", r.impl, Nil, Nil,
                          r.err)
                        @@ [old |-> getEndpoint(Endpoints, endpointID).ep]

GetEndpoint ==
    \E endpointId \in Ids :
        LET r == getEndpoint(Endpoints, endpointId)
        IN  /\ UNCHANGED Endpoints
            /\ ret' = Ret("getEndpoint", endpointId, "", "notCalled", Nil,
                          r.ep, r.err)

\* The receiver of attach and detach is an endpoint of the directory.
Attach ==
    \E id \in DOMAIN Endpoints, sandboxKey \in SandboxKeys :
        LET r == attach(Endpoints[id], sandboxKey)
        IN  /\ Endpoints' = [Endpoints EXCEPT ![id] = r.ep]
            /\ ret' = Ret("attach", id, sandboxKey, "notCalled", Nil, Nil,
                          r.err)

Detach ==
    \E id \in DOMAIN Endpoints :
        LET r == detach(Endpoints[id])
        IN  /\ Endpoints' = [Endpoints EXCEPT ![id] = r.ep]
            /\ ret' = Ret("detach", id, "", "notCalled", Nil, Nil, r.err)

\* The existing EndpointInfo names the endpoint; the target is a desired
\* state for the same identifier.
UpdateEndpoint ==
    \E id \in Ids, v \in Variants, out \in UpdateOutcomes :
        LET existingEpInfo == EpInfoOf(id, "v1")
            targetEpInfo == EpInfoOf(id, v)
            implRes == updateEndpointImpl(existingEpInfo, targetEpInfo,
                                          out.routes, out.err)
            r == updateEndpoint(Endpoints, existingEpInfo, targetEpInfo,
                                implRes)
        IN  /\ Endpoints' = r.Endpoints
            /\ ret' = Ret("updateEndpoint", existingEpInfo.EndpointID, "",
                          r.impl,
                          IF r.impl = "notCalled" THEN Nil ELSE implRes.ep,
                          Nil, r.err)

Next ==
    \/ NewEndpoint
    \/ DeleteEndpoint
    \/ GetEndpoint
    \/ Attach
    \/ Detach
    \/ UpdateEndpoint

Spec == Init /\ [][Next]_vars

(***************************************************************************)
(* Properties of the directory lifecycle                                   *)
(***************************************************************************)

Found(eps, id) ==
    /\ getEndpoint(eps, id).err = NoErr
    /\ getEndpoint(eps, id).ep # Nil
    /\ getEndpoint(eps, id).ep[1].Id = id

NotFound(eps, id) ==
    /\ getEndpoint(eps, id).err = errEndpointNotFound
    /\ getEndpoint(eps, id).ep = Nil

\* The step relation of C1_Lifecycle.
C1_LifecycleStep ==
    \A id \in Ids :
        LET succNew == /\ ret'.op = "newEndpoint" /\ ret'.id = id
                       /\ ret'.err = NoErr
            succDel == /\ ret'.op = "deleteEndpoint" /\ ret'.id = id
                       /\ ret'.err = NoErr
        IN  /\ succNew => /\ Found(Endpoints', id)
                          /\ getEndpoint(Endpoints', id).ep = ret'.ep
            /\ succDel => NotFound(Endpoints', id)
            /\ (Found(Endpoints, id) /\ ~succDel) => Found(Endpoints', id)
            /\ (NotFound(Endpoints, id) /\ ~succNew) => NotFound(Endpoints', id)

\* C1: in every run of newEndpoint, attach, detach and deleteEndpoint,
\* getEndpoint(id) returns the endpoint from the moment newEndpoint returns
\* it until deleteEndpoint returns success for id, and returns
\* errEndpointNotFound from then on (until id is created again).  Stated
\* step by step: a successful newEndpoint makes id found, with exactly the
\* endpoint it returned; a found id stays found across every call other
\* than a successful deleteEndpoint of id; a successful deleteEndpoint
\* makes id not found; a not-found id stays so across every call other
\* than a successful newEndpoint of id.
C1_Lifecycle == [][C1_LifecycleStep]_vars

\* C1 witness: deleteEndpoint has just torn down and removed a tracked
\* endpoint, and getEndpoint no longer finds it.
C1_Witness ==
    /\ ret.op = "deleteEndpoint"
    /\ ret.impl = "ok"
    /\ ret.err = NoErr
    /\ NotFound(Endpoints, ret.id)

\* The step relation of C2_FailedCreate.
C2_FailedCreateStep ==
    (ret'.op = "newEndpoint" /\ ret'.impl = "failed")
        => /\ ret'.err = PlatformFailure
           /\ ret'.ep = Nil
           /\ Endpoints' = Endpoints

\* C2: when the platform construction step fails, newEndpoint returns that
\* error and no endpoint, and the directory is exactly as it was: no key
\* added, and an entry stored under the requested identifier neither
\* removed nor replaced.
C2_FailedCreate == [][C2_FailedCreateStep]_vars

\* C2 witness: newEndpoint has failed in the platform step for an
\* identifier under which an entry is stored.
C2_Witness ==
    /\ ret.op = "newEndpoint"
    /\ ret.impl = "failed"
    /\ ret.err = PlatformFailure
    /\ ret.id \in DOMAIN Endpoints

\* The step relation of C3_Delete.
C3_DeleteStep ==
    /\ (ret'.op = "deleteEndpoint" /\ ret'.id \in DOMAIN Endpoints)
        => /\ ret'.impl \in {"ok", "failed"}
           /\ ret'.impl = "failed" => /\ ret'.err = PlatformFailure
                                      /\ Endpoints' = Endpoints
           /\ ret'.impl = "ok" => /\ ret'.err = NoErr
                                  /\ Endpoints' = Remove(Endpoints, ret'.id)
           /\ ret'.id \notin DOMAIN Endpoints' => ret'.impl = "ok"
    /\ (/\ ret.op = "deleteEndpoint" /\ ret.impl = "failed"
        /\ ret'.op = "deleteEndpoint" /\ ret'.id = ret.id)
        => /\ ret'.impl # "notCalled"
           /\ ret'.impl = "ok" => ret'.id \notin DOMAIN Endpoints'

\* C3: for an identifier in the directory, deleteEndpoint calls the
\* platform teardown and removes the entry only when it succeeded; when it
\* failed, deleteEndpoint returns the error and the entry is present and
\* unchanged, and a retry for the same identifier finds the entry again and
\* removes it if its teardown succeeds.
C3_Delete == [][C3_DeleteStep]_vars

\* C3 witness: a teardown has failed and the entry is still stored.
C3_Witness ==
    /\ ret.op = "deleteEndpoint"
    /\ ret.impl = "failed"
    /\ ret.err = PlatformFailure
    /\ ret.id \in DOMAIN Endpoints

\* The step relation of C4_DeleteAbsent.
C4_DeleteAbsentStep ==
    /\ (/\ ret'.op = "deleteEndpoint"
        /\ getEndpoint(Endpoints, ret'.id).err = errEndpointNotFound)
        => /\ ret'.err = NoErr
           /\ ret'.impl = "notCalled"
           /\ Endpoints' = Endpoints
    /\ (/\ ret.op = "deleteEndpoint" /\ ret.err = NoErr
        /\ ret'.op = "deleteEndpoint" /\ ret'.id = ret.id)
        => /\ ret'.err = NoErr
           /\ ret'.impl = "notCalled"
           /\ Endpoints' = Endpoints

\* C4: deleteEndpoint of an identifier getEndpoint does not find returns
\* nil, leaves the directory unchanged and does not call the platform
\* teardown; so a deleteEndpoint right after a deleteEndpoint of the same
\* identifier that returned nil returns nil too.
C4_DeleteAbsent == [][C4_DeleteAbsentStep]_vars

\* C4 witness: deleteEndpoint has returned nil without a teardown, on a
\* directory that holds other entries.
C4_Witness ==
    /\ ret.op = "deleteEndpoint"
    /\ ret.impl = "notCalled"
    /\ ret.err = NoErr
    /\ ret.id \notin DOMAIN Endpoints
    /\ DOMAIN Endpoints # {}

(***************************************************************************)
(* Properties of the sandbox binding                                       *)
(***************************************************************************)

\* The step relation of C5_Original.
C5_OriginalStep ==
    (/\ ret.op = "attach" /\ ret.err = NoErr
     /\ ret'.op = "attach" /\ ret'.id = ret.id)
        => /\ ret'.err = errEndpointInUse
           /\ Endpoints'[ret.id].SandboxKey = ret.key

\* C5 as stated: after attach(k1) returned nil, for any k1, the
\* next attach(k2) on the same endpoint fails with errEndpointInUse and the
\* stored key is k1.
C5_Original == [][C5_OriginalStep]_vars

\* The step relation of C5_AttachTwice.
C5_AttachTwiceStep ==
    (/\ ret.op = "attach" /\ ret.err = NoErr /\ ret.key # ""
     /\ ret'.op = "attach" /\ ret'.id = ret.id)
        => /\ ret'.err = errEndpointInUse
           /\ Endpoints'[ret.id].SandboxKey = ret.key

\* C5 (amended): after attach(k1) returned nil for a non-empty k1, an
\* attach(k2) issued right afterwards on the same endpoint, for any k2,
\* fails with errEndpointInUse and the stored key is still k1.
C5_AttachTwice == [][C5_AttachTwiceStep]_vars

\* C5 witness: attach(k2) has failed with errEndpointInUse on an endpoint
\* bound to another key k1.
C5_Witness ==
    /\ ret.op = "attach"
    /\ ret.err = errEndpointInUse
    /\ ret.key # ""
    /\ Endpoints[ret.id].SandboxKey # ""
    /\ Endpoints[ret.id].SandboxKey # ret.key

\* The step relation of C6_SingleSlot.
C6_SingleSlotStep ==
    /\ ret'.op = "attach"
        => /\ ret'.err = NoErr <=> Endpoints[ret'.id].SandboxKey = ""
           /\ ret'.err = NoErr
                => Endpoints'[ret'.id].SandboxKey = ret'.key
           /\ ret'.err # NoErr
                => /\ ret'.err = errEndpointInUse
                   /\ Endpoints'[ret'.id].SandboxKey
                        = Endpoints[ret'.id].SandboxKey
    /\ ret'.op = "detach"
        => /\ ret'.err = NoErr <=> Endpoints[ret'.id].SandboxKey # ""
           /\ ret'.err = NoErr => Endpoints'[ret'.id].SandboxKey = ""
           /\ ret'.err # NoErr
                => /\ ret'.err = errEndpointNotInUse
                   /\ Endpoints'[ret'.id].SandboxKey
                        = Endpoints[ret'.id].SandboxKey
    /\ (/\ ret.op = "detach" /\ ret.err = NoErr
        /\ ret'.op = "detach" /\ ret'.id = ret.id)
        => ret'.err = errEndpointNotInUse

\* C6: attach returns nil exactly when the stored key is empty, and then
\* stores its argument; otherwise it fails with errEndpointInUse.  detach
\* returns nil exactly when the stored key is non-empty, and then clears
\* it; otherwise it fails with errEndpointNotInUse.  A failing call leaves
\* the key as it was, and a detach right after a successful detach fails.
C6_SingleSlot == [][C6_SingleSlotStep]_vars

\* C6 witness: a detach has failed on an unattached endpoint.
C6_Witness ==
    /\ ret.op = "detach"
    /\ ret.err = errEndpointNotInUse
    /\ Endpoints[ret.id].SandboxKey = ""

(***************************************************************************)
(* Properties of updateEndpoint                                            *)
(***************************************************************************)

\* The step relation of C9_UpdateUntracked.
C9_UpdateUntrackedStep ==
    (ret'.op = "updateEndpoint" /\ ret'.id \notin DOMAIN Endpoints)
        => /\ ret'.err = errEndpointNotFound
           /\ ret'.impl = "notCalled"
           /\ Endpoints' = Endpoints

\* C9: updateEndpoint for an identifier that is not in the directory fails
\* with errEndpointNotFound, does not call the platform update step, and
\* leaves the directory (keys and endpoints) unchanged.
C9_UpdateUntracked == [][C9_UpdateUntrackedStep]_vars

\* C9 witness: an update of an untracked identifier has failed on a
\* directory that holds other entries.
C9_Witness ==
    /\ ret.op = "updateEndpoint"
    /\ ret.err = errEndpointNotFound
    /\ ret.id \notin DOMAIN Endpoints
    /\ DOMAIN Endpoints # {}

\* The step relation of C10_UpdateRoutesOnly.
C10_UpdateRoutesOnlyStep ==
    (ret'.op = "updateEndpoint" /\ ret'.err = NoErr)
        => /\ ret'.id \in DOMAIN Endpoints
           /\ ret'.impl = "ok"
           /\ DOMAIN Endpoints' = DOMAIN Endpoints
           /\ Endpoints'[ret'.id].Routes = ret'.implEp[1].Routes
           /\ Endpoints'[ret'.id]
                = [Endpoints[ret'.id] EXCEPT !.Routes = ret'.implEp[1].Routes]
           /\ \A other \in DOMAIN Endpoints \ {ret'.id} :
                  Endpoints'[other] = Endpoints[other]

\* C10: after a successful updateEndpoint of a tracked identifier, the
\* stored endpoint's routes are those of the endpoint the platform step
\* returned, each of its other fields has the value it had before the
\* call, the key set is the same and no other endpoint has changed.
C10_UpdateRoutesOnly == [][C10_UpdateRoutesOnlyStep]_vars

\* C10 witness: an update has succeeded on an attached endpoint, with a
\* second endpoint stored, where the endpoint the platform returned
\* differs from the stored one in container, NIC type, addresses and
\* sandbox key.
C10_Witness ==
    /\ ret.op = "updateEndpoint"
    /\ ret.err = NoErr
    /\ Cardinality(DOMAIN Endpoints) > 1
    /\ Endpoints[ret.id].Routes = ret.implEp[1].Routes
    /\ Endpoints[ret.id].Routes # <<>>
    /\ Endpoints[ret.id].SandboxKey # ret.implEp[1].SandboxKey
    /\ Endpoints[ret.id].ContainerID # ret.implEp[1].ContainerID
    /\ Endpoints[ret.id].NICType # ret.implEp[1].NICType
    /\ Endpoints[ret.id].IPAddresses # ret.implEp[1].IPAddresses
    /\ Endpoints[ret.id].Gateways # ret.implEp[1].Gateways

\* The step relation of C11_FailedUpdate.
C11_FailedUpdateStep ==
    (ret'.op = "updateEndpoint" /\ ret'.impl = "failed")
        => /\ ret'.id \in DOMAIN Endpoints
           /\ ret'.err = PlatformFailure
           /\ Endpoints'[ret'.id].Routes = Endpoints[ret'.id].Routes
           /\ Endpoints' = Endpoints

\* C11: when the platform update step fails for a tracked identifier,
\* updateEndpoint returns the error, and the stored endpoint's routes and
\* every other field of it are as before the call.
C11_FailedUpdate == [][C11_FailedUpdateStep]_vars

\* C11 witness: an update has failed in the platform step on a stored
\* endpoint that has routes.
C11_Witness ==
    /\ ret.op = "updateEndpoint"
    /\ ret.impl = "failed"
    /\ ret.err = PlatformFailure
    /\ ret.id \in DOMAIN Endpoints
    /\ Endpoints[ret.id].Routes # <<>>

(***************************************************************************)
(* Properties of the whole run                                             *)
(***************************************************************************)

\* The step relation of C15_InsertAndLookup.
C15_InsertAndLookupStep ==
    /\ (ret'.op = "newEndpoint" /\ ret'.err = NoErr)
        => /\ ret'.ep # Nil
           /\ getEndpoint(Endpoints', ret'.ep[1].Id)
                = [ep |-> ret'.ep, err |-> NoErr]
           /\ Endpoints'[ret'.ep[1].Id] = ret'.implEp[1]
           /\ ret'.ep[1].Id \in DOMAIN Endpoints
                => Cardinality(DOMAIN Endpoints')
                     = Cardinality(DOMAIN Endpoints)
           /\ \A other \in DOMAIN Endpoints \ {ret'.ep[1].Id} :
                  /\ other \in DOMAIN Endpoints'
                  /\ Endpoints'[other] = Endpoints[other]
    /\ ret'.op = "getEndpoint"
        => /\ Endpoints' = Endpoints
           /\ ret'.id \notin DOMAIN Endpoints
                => (ret'.err = errEndpointNotFound /\ ret'.ep = Nil)
           /\ ret'.id \in DOMAIN Endpoints
                => (ret'.err = NoErr /\ ret'.ep = <<Endpoints[ret'.id]>>)
    /\ \A id \in Ids \ DOMAIN Endpoints' :
           getEndpoint(Endpoints', id) = [ep |-> Nil, err |-> errEndpointNotFound]

\* C15: after newEndpoint returns success, getEndpoint on the returned
\* endpoint's identifier returns exactly that endpoint; an entry already
\* stored under the identifier is replaced as a whole (the stored endpoint
\* is the one the platform returned, with nothing of the old entry) and
\* the number of entries does not grow; getEndpoint returns
\* errEndpointNotFound for every identifier not in the directory and never
\* changes the directory.
C15_InsertAndLookup == [][C15_InsertAndLookupStep]_vars

\* C15 witness: newEndpoint has replaced an attached entry whose routes
\* differ from the new endpoint's, and the stored endpoint is unattached
\* and is the returned one.
C15_Witness ==
    /\ ret.op = "newEndpoint"
    /\ ret.err = NoErr
    /\ ret.old # Nil
    /\ ret.old[1].SandboxKey # ""
    /\ ret.old[1].Routes # ret.ep[1].Routes
    /\ ret.old[1].ContainerID # ret.ep[1].ContainerID
    /\ Endpoints[ret.id] = ret.ep[1]
    /\ Endpoints[ret.id].SandboxKey = ""


\* After the last call on endpoint e the binding is free: a detach
\* returned (with nil or errEndpointNotInUse), or attach("") returned nil.
LeftUnattached ==
    \/ ret.op = "detach"
    \/ ret.op = "attach" /\ ret.err = NoErr /\ ret.key = ""

\* After the last call the binding is taken: an attach with a non-empty
\* key returned nil, or an attach failed with errEndpointInUse.
LeftAttached ==
    /\ ret.op = "attach"
    /\ \/ ret.err = NoErr /\ ret.key # ""
       \/ ret.err = errEndpointInUse

\* C17: the binding has no terminal state.  After every attach or detach
\* on a stored endpoint, successful or failed, after any number of cycles,
\* the valid transition is available: on an unattached endpoint attach
\* with any non-empty key returns nil and binds that key, and on an
\* attached endpoint detach returns nil and clears the key.
C17_NoTerminalState ==
    (ret.op \in {"attach", "detach"} /\ ret.id \in DOMAIN Endpoints)
        => /\ LeftUnattached \/ LeftAttached
           /\ LeftUnattached
                => \A k \in SandboxKeys \ {""} :
                       /\ attach(Endpoints[ret.id], k).err = NoErr
                       /\ attach(Endpoints[ret.id], k).ep.SandboxKey = k
           /\ LeftAttached
                => /\ detach(Endpoints[ret.id]).err = NoErr
                   /\ detach(Endpoints[ret.id]).ep.SandboxKey = ""

\* C17 witness: a detach has succeeded (so an attach succeeded before it)
\* and the endpoint can be attached again.
C17_Witness ==
    /\ ret.op = "detach"
    /\ ret.err = NoErr
    /\ ret.id \in DOMAIN Endpoints
    /\ attach(Endpoints[ret.id], "k2").err = NoErr

\* C20: after any sequence of newEndpoint, deleteEndpoint, updateEndpoint,
\* attach and detach calls from an empty directory, every key of the
\* directory is the Id of the endpoint stored under it.
C20_KeyIsId == \A id \in DOMAIN Endpoints : Endpoints[id].Id = id

\* C20 witness: the directory holds two endpoints, one of them attached,
\* after a successful update.
C20_Witness ==
    /\ ret.op = "updateEndpoint"
    /\ ret.err = NoErr
    /\ Cardinality(DOMAIN Endpoints) > 1
    /\ \E id \in DOMAIN Endpoints : Endpoints[id].SandboxKey # ""

\* C21: deleteEndpoint does not look at the sandbox binding: for a tracked
\* endpoint, attached or not, the platform teardown is called, and when it
\* succeeds deleteEndpoint returns success and the entry is gone, so an
\* endpoint can leave the directory while still attached.
C21_DeleteIgnoresBinding ==
    (ret.op = "deleteEndpoint" /\ ret.old # Nil)
        => /\ ret.impl \in {"ok", "failed"}
           /\ ret.impl = "ok"
                => /\ ret.err = NoErr
                   /\ ret.id \notin DOMAIN Endpoints
           /\ ret.impl = "failed"
                => /\ ret.err = PlatformFailure
                   /\ ret.id \in DOMAIN Endpoints
                   /\ Endpoints[ret.id] = ret.old[1]

\* C21 witness: an endpoint that was attached when deleteEndpoint was
\* called has left the directory, and the call returned success.
C21_Witness ==
    /\ ret.op = "deleteEndpoint"
    /\ ret.old # Nil
    /\ ret.old[1].SandboxKey # ""
    /\ ret.impl = "ok"
    /\ ret.err = NoErr
    /\ ret.id \notin DOMAIN Endpoints

\* The step relation of C22_BindingFrame.
C22_BindingFrameStep ==
    ret'.op \in {"attach", "detach"}
        => /\ DOMAIN Endpoints' = DOMAIN Endpoints
           /\ ret'.id \in DOMAIN Endpoints
           /\ [Endpoints'[ret'.id] EXCEPT
                   !.SandboxKey = Endpoints[ret'.id].SandboxKey]
                = Endpoints[ret'.id]
           /\ \A other \in DOMAIN Endpoints \ {ret'.id} :
                  Endpoints'[other] = Endpoints[other]
           /\ ret'.err # NoErr => Endpoints' = Endpoints

\* C22: attach and detach, whether they succeed or fail, change at most
\* the sandbox key of the endpoint they are called on: the directory's key
\* set, every other field of that endpoint (routes included) and every
\* other endpoint are unchanged.
C22_BindingFrame == [][C22_BindingFrameStep]_vars

\* C22 witness: a detach has succeeded on an endpoint that has routes,
\* next to another endpoint that is still attached.
C22_Witness ==
    /\ ret.op = "detach"
    /\ ret.err = NoErr
    /\ ret.id \in DOMAIN Endpoints
    /\ Endpoints[ret.id].SandboxKey = ""
    /\ Endpoints[ret.id].Routes # <<>>
    /\ \E other \in DOMAIN Endpoints \ {ret.id} :
           Endpoints[other].SandboxKey # ""


(***************************************************************************)
(* Lookup by pod over every directory content                              *)
(***************************************************************************)

\* An endpoint as newEndpoint stores it, with a chosen pod name and
\* namespace.
PodEndpoint(id, podName, podNameSpace) ==
    [newEndpointImpl(EpInfoOf(id, "v1"), NoErr).ep[1]
        EXCEPT !.PODName = podName, !.PODNameSpace = podNameSpace]

PodDirectories ==
    UNION {[S -> PodNames \X PodNameSpaces] : S \in SUBSET Ids}

PodInit ==
    /\ \E d \in PodDirectories :
           Endpoints = [id \in DOMAIN d |-> PodEndpoint(id, d[id][1], d[id][2])]
    /\ ret = [op |-> "none"]

\* One lookup per directory: a lookup leaves the directory as it is.
GetEndpointByPOD ==
    /\ ret.op = "none"
    /\ \E podName \in PodNames, podNameSpace \in PodNameSpaces,
          doExactMatchForPodName \in BOOLEAN,
          order \in Orders(DOMAIN Endpoints) :
           LET r == getEndpointByPOD(Endpoints, order, podName, podNameSpace,
                                     doExactMatchForPodName)
           IN  /\ UNCHANGED Endpoints
               /\ ret' = [op |-> "getEndpointByPOD", podName |-> podName,
                          podNameSpace |-> podNameSpace,
                          exact |-> doExactMatchForPodName,
                          ep |-> r.ep, err |-> r.err]

PodNext == GetEndpointByPOD

PodSpec == PodInit /\ [][PodNext]_vars

(***************************************************************************)
(* Properties of the lookup by pod                                         *)
(***************************************************************************)

\* A hyphen-free segment of a modelled pod name.
Segments == {<<"a">>, <<"b">>}

\* base is name without its last two hyphen-delimited segments.
IsBaseOf(base, name) ==
    \E s1, s2 \in Segments : name = base \o <<Hyphen>> \o s1 \o <<Hyphen>> \o s2

\* The directory holds one endpoint, whose pod name has the base name base,
\* and the last call looked up podName in that endpoint's namespace
\* without the exact-match flag.
SoleEntryLookup(id, base) ==
    /\ ret.op = "getEndpointByPOD"
    /\ ~ret.exact
    /\ DOMAIN Endpoints = {id}
    /\ IsBaseOf(base, Endpoints[id].PODName)
    /\ ret.podNameSpace = Endpoints[id].PODNameSpace

Candidates(eps, podName, podNameSpace, exact) ==
    {id \in DOMAIN eps :
        /\ eps[id].PODNameSpace = podNameSpace
        /\ IF exact
           THEN eps[id].PODName = podName
           ELSE GetPodNameWithoutSuffix(eps[id].PODName) = podName}

\* The step relation of C8_Lookup.
C8_LookupStep ==
    ret'.op = "getEndpointByPOD"
        => LET c == Candidates(Endpoints, ret'.podName, ret'.podNameSpace,
                               ret'.exact)
           IN  /\ c = {} => (ret'.err = errEndpointNotFound /\ ret'.ep = Nil)
               /\ Cardinality(c) = 1
                    => /\ ret'.err = NoErr
                       /\ \E id \in c : ret'.ep = <<Endpoints[id]>>
               /\ Cardinality(c) > 1
                    => (ret'.err = errMultipleEndpointsFound /\ ret'.ep = Nil)
               /\ Endpoints' = Endpoints

MaxBatch == 3

errInvalidEndpointStruct ==
    "endpoint struct must contain a container id and nic type"

errMultipleContainerIDs == "multiple distinct container ids detected"

\* errors.Wrap(err, message): the message, a colon, the cause.
Wrap(err, message) == message \o ": " \o err

errInvalidEndpoint ==
    Wrap(errInvalidEndpointStruct, "failed to validate endpoint struct")

\* Mutant: validation rejects only an endpoint that lacks both fields.
validateEndpoint_and(ep) ==
    IF ep.ContainerID = "" /\ ep.NICType = ""
    THEN errInvalidEndpointStruct
    ELSE NoErr

validateEndpoint(ep) ==
    IF ep.ContainerID = "" \/ ep.NICType = ""
    THEN errInvalidEndpointStruct
    ELSE NoErr

\* The loop of validateEndpoints from position i on, containerIDs being the
\* set accumulated over the positions before i.
RECURSIVE validateEndpointsFrom(_, _, _)
validateEndpointsFrom(eps, i, containerIDs) ==
    IF i > Len(eps)
    THEN NoErr
    ELSE IF validateEndpoint(eps[i]) # NoErr
    THEN Wrap(validateEndpoint(eps[i]), "failed to validate endpoint struct")
    ELSE IF Cardinality(containerIDs \cup {eps[i].ContainerID}) # 1
    THEN errMultipleContainerIDs
    ELSE validateEndpointsFrom(eps, i + 1,
                               containerIDs \cup {eps[i].ContainerID})

\* Mutant: every member is validated first, the container identifiers are
\* compared afterwards.
validateEndpoints_twoPass(eps) ==
    IF \E i \in 1..Len(eps) : validateEndpoint(eps[i]) # NoErr
    THEN Wrap(errInvalidEndpointStruct, "failed to validate endpoint struct")
    ELSE IF Cardinality({eps[i].ContainerID : i \in 1..Len(eps)}) > 1
    THEN errMultipleContainerIDs
    ELSE NoErr

validateEndpoints(eps) == validateEndpointsFrom(eps, 1, {})

\* An endpoint with the given container identifier and NIC type.
BatchEndpoint(containerID, nicType) ==
    [newEndpointImpl(EpInfoOf(IdNames[1], "v1"), NoErr).ep[1]
        EXCEPT !.ContainerID = containerID, !.NICType = nicType]

BatchEndpoints ==
    {BatchEndpoint(c, n) : c \in {"", "c1", "c2"}, n \in {"", "InfraNIC"}}

Batches == UNION {[1..n -> BatchEndpoints] : n \in 0..MaxBatch}

ValidateInit ==
    /\ Endpoints = <<>>
    /\ ret = [op |-> "none"]

ValidateEndpoints ==
    /\ ret.op = "none"
    /\ \E eps \in Batches :
           ret' = [op |-> "validateEndpoints", eps |-> eps,
                   err |-> validateEndpoints(eps)]
    /\ UNCHANGED Endpoints

ValidateNext == ValidateEndpoints

ValidateSpec == ValidateInit /\ [][ValidateNext]_vars

\* ep has a container identifier and a NIC type.
IsValidMember(ep) == ep.ContainerID # "" /\ ep.NICType # ""

AllValid(eps) == \A i \in 1..Len(eps) : IsValidMember(eps[i])

SameContainer(eps) ==
    \A i, j \in 1..Len(eps) : eps[i].ContainerID = eps[j].ContainerID

\* C12: validateEndpoints returns success exactly when every member has a
\* non-empty container identifier and a non-empty NIC type and all members
\* carry the same container identifier; valid members with two distinct
\* container identifiers fail with the multiple-container-ids error, and a
\* list with one invalid member whose other members are valid and share a
\* container fails with the invalid-endpoint error.
C12_ValidateEndpoints ==
    ret.op = "validateEndpoints"
        => /\ ret.err = NoErr <=> (AllValid(ret.eps) /\ SameContainer(ret.eps))
           /\ (AllValid(ret.eps) /\ ~SameContainer(ret.eps))
                => ret.err = errMultipleContainerIDs
           /\ \A i \in 1..Len(ret.eps) :
                  (/\ ~IsValidMember(ret.eps[i])
                   /\ \A j \in 1..Len(ret.eps) \ {i} :
                          IsValidMember(ret.eps[j])
                   /\ \A j, k \in 1..Len(ret.eps) \ {i} :
                          ret.eps[j].ContainerID = ret.eps[k].ContainerID)
                      => ret.err = errInvalidEndpoint

\* C12 witness: a batch of three whose one member without a NIC type was
\* rejected as invalid, the other two being valid in the same container.
C12_Witness ==
    /\ ret.op = "validateEndpoints"
    /\ Len(ret.eps) = 3
    /\ ret.eps[1].ContainerID = "c1" /\ ret.eps[1].NICType # ""
    /\ ret.eps[2].ContainerID = "c1" /\ ret.eps[2].NICType = ""
    /\ ret.eps[3].ContainerID = "c1" /\ ret.eps[3].NICType # ""
    /\ ret.err = errInvalidEndpoint

\* Position i is a violation: the member is invalid, or its container
\* identifier differs from an earlier member's.
Violates(eps, i) ==
    \/ ~IsValidMember(eps[i])
    \/ \E j \in 1..(i - 1) : eps[j].ContainerID # eps[i].ContainerID

\* C19: validateEndpoints scans in order and stops at the first violation:
\* with no violating position (the empty list included) it returns success;
\* otherwise the error is that of the earliest violating position, the
\* invalid-endpoint error if that member is invalid and the
\* multiple-container-ids error if it only differs from an earlier member.
C19_FirstViolation ==
    ret.op = "validateEndpoints"
        => IF \A i \in 1..Len(ret.eps) : ~Violates(ret.eps, i)
           THEN ret.err = NoErr
           ELSE LET p == CHOOSE i \in 1..Len(ret.eps) :
                             /\ Violates(ret.eps, i)
                             /\ \A j \in 1..(i - 1) : ~Violates(ret.eps, j)
                IN  ret.err = IF IsValidMember(ret.eps[p])
                              THEN errMultipleContainerIDs
                              ELSE errInvalidEndpoint

\* C19 witness: the batch [c1, c2, invalid] was rejected for its second
\* member with the multiple-container-ids error.
C19_Witness ==
    /\ ret.op = "validateEndpoints"
    /\ Len(ret.eps) = 3
    /\ ret.eps[1].ContainerID = "c1" /\ IsValidMember(ret.eps[1])
    /\ ret.eps[2].ContainerID = "c2" /\ IsValidMember(ret.eps[2])
    /\ ~IsValidMember(ret.eps[3])
    /\ ret.err = errMultipleContainerIDs


(***************************************************************************)
(* Snapshots of an endpoint                                                *)
(***************************************************************************)

\* Platform enrichment step: adds platform extras to the data bag and
\* leaves every other field of the snapshot as getInfo filled it.
getInfoImpl(ep, info, extras) == [info EXCEPT !.Data = extras]

\* The extras the enrichment step may add: none, or the platform handle.
PlatformExtras(ep) == {{}, {<<"hnsid", ep.HnsId>>}}

\* Mutant: the snapshot does not carry the sandbox binding.
getInfo_noKey(ep, extras) ==
    getInfoImpl(ep,
                [EndpointID |-> ep.Id,
                 IPAddresses |-> ep.IPAddresses,
                 SandboxKey |-> "",
                 ContainerID |-> ep.ContainerID,
                 PODName |-> ep.PODName,
                 PODNameSpace |-> ep.PODNameSpace,
                 HNSEndpointID |-> ep.HnsId,
                 HostIfName |-> ep.HostIfName,
                 NICType |-> ep.NICType,
                 Routes |-> <<>> \o ep.Routes,
                 Gateways |-> <<>> \o ep.Gateways,
                 Data |-> {}],
                extras)

getInfo(ep, extras) ==
    getInfoImpl(ep,
                [EndpointID |-> ep.Id,
                 IPAddresses |-> ep.IPAddresses,
                 SandboxKey |-> ep.SandboxKey,
                 ContainerID |-> ep.ContainerID,
                 PODName |-> ep.PODName,
                 PODNameSpace |-> ep.PODNameSpace,
                 HNSEndpointID |-> ep.HnsId,
                 HostIfName |-> ep.HostIfName,
                 NICType |-> ep.NICType,
                 Routes |-> <<>> \o ep.Routes,
                 Gateways |-> <<>> \o ep.Gateways,
                 Data |-> {}],
                extras)

\* Mutant: a snapshot lacking either field counts as incomplete.
IsEndpointStateIncomplete_or(epInfo) ==
    IF epInfo.HNSEndpointID = "" \/ epInfo.HostIfName = ""
    THEN TRUE
    ELSE FALSE

IsEndpointStateIncomplete(epInfo) ==
    IF epInfo.HNSEndpointID = "" /\ epInfo.HostIfName = ""
    THEN TRUE
    ELSE FALSE

\* The endpoint whose state changes while a snapshot of it is held.
InfoTarget == IdNames[1]

\* A stored endpoint with the given platform handle and host interface.
InfoEndpoint(id, hnsId, hostIfName) ==
    [newEndpointImpl(EpInfoOf(id, IF id = InfoTarget THEN "v1" ELSE "v2"),
                     NoErr).ep[1]
        EXCEPT !.HnsId = hnsId, !.HostIfName = hostIfName]

\* Directories holding every identifier; the target has any combination of
\* platform handle and host interface name, present or empty.
InfoDirectories ==
    {[id \in Ids |-> IF id = InfoTarget
                     THEN InfoEndpoint(id, hnsId, hostIfName)
                     ELSE InfoEndpoint(id, "hns2", "")] :
        hnsId \in {"", "hns1"}, hostIfName \in {"", "veth1"}}

\* info: the snapshot the caller holds (Nil before the first getInfo);
\* incomplete: what IsEndpointStateIncomplete said of it.
InfoRet(op, id, info, incomplete, err) ==
    [op |-> op, id |-> id, info |-> info, incomplete |-> incomplete,
     err |-> err]

InfoInit ==
    /\ Endpoints \in InfoDirectories
    /\ ret = InfoRet("none", "", Nil, FALSE, NoErr)

GetInfo ==
    \E id \in DOMAIN Endpoints :
        \E extras \in PlatformExtras(Endpoints[id]) :
            LET info == getInfo(Endpoints[id], extras)
            IN  /\ ret' = InfoRet("getInfo", id, <<info>>,
                                  IsEndpointStateIncomplete(info), NoErr)
                /\ UNCHANGED Endpoints

InfoAttach ==
    \E sandboxKey \in SandboxKeys :
        LET r == attach(Endpoints[InfoTarget], sandboxKey)
        IN  /\ Endpoints' = [Endpoints EXCEPT ![InfoTarget] = r.ep]
            /\ ret' = InfoRet("attach", InfoTarget, ret.info, ret.incomplete,
                              r.err)

InfoDetach ==
    LET r == detach(Endpoints[InfoTarget])
    IN  /\ Endpoints' = [Endpoints EXCEPT ![InfoTarget] = r.ep]
        /\ ret' = InfoRet("detach", InfoTarget, ret.info, ret.incomplete,
                          r.err)

InfoUpdateEndpoint ==
    \E v \in Variants, out \in UpdateOutcomes :
        LET existingEpInfo == EpInfoOf(InfoTarget, "v1")
            targetEpInfo == EpInfoOf(InfoTarget, v)
            implRes == updateEndpointImpl(existingEpInfo, targetEpInfo,
                                          out.routes, out.err)
            r == updateEndpoint(Endpoints, existingEpInfo, targetEpInfo,
                                implRes)
        IN  /\ Endpoints' = r.Endpoints
            /\ ret' = InfoRet("updateEndpoint", InfoTarget, ret.info,
                              ret.incomplete, r.err)

InfoNext ==
    \/ GetInfo
    \/ InfoAttach
    \/ InfoDetach
    \/ InfoUpdateEndpoint

InfoSpec == InfoInit /\ [][InfoNext]_vars

\* C13: IsEndpointStateIncomplete is true exactly when both HNSEndpointID
\* and HostIfName of the snapshot are empty, and for a snapshot produced by
\* getInfo that is exactly when the endpoint's HnsId and HostIfName are both
\* empty.
C13_Incomplete ==
    ret.op = "getInfo"
        => /\ ret.incomplete
                <=> (ret.info[1].HNSEndpointID = ""
                     /\ ret.info[1].HostIfName = "")
           /\ ret.incomplete
                <=> (Endpoints[ret.id].HnsId = ""
                     /\ Endpoints[ret.id].HostIfName = "")

\* C13 witness: a snapshot of an endpoint with neither platform handle nor
\* host interface name was reported incomplete.
C13_Witness ==
    /\ ret.op = "getInfo"
    /\ ret.incomplete
    /\ Endpoints[ret.id].HnsId = ""
    /\ Endpoints[ret.id].HostIfName = ""

\* The snapshot carries the endpoint's values of the projected fields.
Reflects(info, ep) ==
    /\ info.SandboxKey = ep.SandboxKey
    /\ info.Routes = ep.Routes
    /\ info.Gateways = ep.Gateways
    /\ info.ContainerID = ep.ContainerID
    /\ info.PODName = ep.PODName
    /\ info.PODNameSpace = ep.PODNameSpace
    /\ info.NICType = ep.NICType

\* The step relation of C14_Snapshot.
C14_SnapshotStep ==
    /\ ret'.op = "getInfo"
        => /\ Endpoints' = Endpoints
           /\ ret'.info # Nil
           /\ Reflects(ret'.info[1], Endpoints[ret'.id])
    /\ ret'.op \in {"attach", "detach", "updateEndpoint"}
        => ret'.info = ret.info

\* C14: getInfo leaves the endpoint and the directory unchanged and returns
\* a snapshot whose sandbox key, routes, gateways, container identifier,
\* pod name, pod namespace and NIC type are the endpoint's at the time of
\* the call; a snapshot already returned keeps its values across a later
\* attach, detach or updateEndpoint, and a later getInfo reflects the
\* endpoint's new sandbox key and routes.
C14_Snapshot == [][C14_SnapshotStep]_vars

\* C14 witness: a snapshot of the target, taken while it was unattached, is
\* held after the endpoint was attached and its routes were replaced.
C14_Witness ==
    /\ ret.op = "updateEndpoint"
    /\ ret.err = NoErr
    /\ ret.info # Nil
    /\ ret.info[1].EndpointID = InfoTarget
    /\ ret.info[1].SandboxKey = ""
    /\ Endpoints[InfoTarget].SandboxKey # ""
    /\ ret.info[1].Routes # Endpoints[InfoTarget].Routes


(***************************************************************************)
(* Suffix stripping over every short pod name                              *)
(***************************************************************************)

\* Longest stored pod name.
MaxNameLen == 5

NameChars == {"a", "b", Hyphen}

\* Every string over NameChars of at most MaxNameLen characters.
Names == UNION {[1..n -> NameChars] : n \in 0..MaxNameLen}

\* The queries tried against a stored name: its prefixes and the pod names.
Queries(podName) ==
    {SubSeq(podName, 1, k) : k \in 0..Len(podName)} \cup PodNames

\* A directory whose only endpoint carries the stored pod name.
StripInit ==
    /\ Endpoints \in {[id \in {IdNames[1]} |->
                          PodEndpoint(id, podName, "default")] :
                      podName \in Names}
    /\ ret = [op |-> "none"]

\* One lookup without the exact-match flag; stripped is what
\* GetPodNameWithoutSuffix makes of the stored name.
StripLookup ==
    /\ ret.op = "none"
    /\ \E query \in Queries(Endpoints[IdNames[1]].PODName) :
           LET r == getEndpointByPOD(Endpoints, <<IdNames[1]>>, query,
                                     "default", FALSE)
           IN  ret' = [op |-> "getEndpointByPOD",
                       podName |-> Endpoints[IdNames[1]].PODName,
                       query |-> query,
                       stripped |-> GetPodNameWithoutSuffix(
                                        Endpoints[IdNames[1]].PODName),
                       ep |-> r.ep, err |-> r.err]
    /\ UNCHANGED Endpoints

StripNext == StripLookup

StripSpec == StripInit /\ [][StripNext]_vars

\* The position of the last hyphen but one of s.
SecondLastHyphen(s) ==
    CHOOSE p \in HyphenAt(s) :
        Cardinality({q \in HyphenAt(s) : q > p}) = 1

NumCallers == 2

CallerNames == <<"t1", "t2", "t3", "t4">>

Callers == {CallerNames[i] : i \in 1..NumCallers}

\* The stored endpoint the callers contend for.
ConcTarget == IdNames[1]

\* Mutant: callers enter without waiting for the lock.
MayEnter_always(lock) == TRUE

\* The network's lock is free.
MayEnter(lock) == lock = ""

\* lock: the caller holding the network's lock ("" when free).  Per caller:
\* pc its position (idle, locked, called, returned), kind and key the call
\* it makes, seen the endpoint as the call read it, err the call's result.
\* lastOk: the kind of the last call that succeeded in binding or freeing
\* the endpoint.
ConcInit ==
    /\ Endpoints = newEndpoint(<<>>, EpInfoOf(ConcTarget, "v1"),
                               newEndpointImpl(EpInfoOf(ConcTarget, "v1"),
                                               NoErr)).Endpoints
    /\ ret = [op |-> "none",
              lock |-> "",
              pc |-> [c \in Callers |-> "idle"],
              kind |-> [c \in Callers |-> "none"],
              key |-> [c \in Callers |-> ""],
              seen |-> [c \in Callers |-> Nil],
              err |-> [c \in Callers |-> NoErr],
              lastOk |-> "none"]

\* The caller takes the network's lock before calling.
Acquire(c) ==
    /\ ret.pc[c] = "idle"
    /\ MayEnter(ret.lock)
    /\ ret' = [ret EXCEPT !.op = "lock", !.lock = c, !.pc[c] = "locked"]
    /\ UNCHANGED Endpoints

\* attach, first half: the call reads the endpoint (the test of
\* ep.SandboxKey).
BeginAttach(c) ==
    /\ ret.pc[c] = "locked"
    /\ \E sandboxKey \in SandboxKeys :
           ret' = [ret EXCEPT !.op = "attach", !.pc[c] = "called",
                              !.kind[c] = "attach", !.key[c] = sandboxKey,
                              !.seen[c] = <<Endpoints[ConcTarget]>>,
                              !.err[c] = NoErr]
    /\ UNCHANGED Endpoints

\* detach, first half: the call reads the endpoint.
BeginDetach(c) ==
    /\ ret.pc[c] = "locked"
    /\ ret' = [ret EXCEPT !.op = "detach", !.pc[c] = "called",
                          !.kind[c] = "detach", !.key[c] = "",
                          !.seen[c] = <<Endpoints[ConcTarget]>>,
                          !.err[c] = NoErr]
    /\ UNCHANGED Endpoints

\* Second half of the call: the binding the call leaves is written, and
\* the call returns.
Finish(c) ==
    /\ ret.pc[c] = "called"
    /\ LET r == IF ret.kind[c] = "attach"
                THEN attach(ret.seen[c][1], ret.key[c])
                ELSE detach(ret.seen[c][1])
       IN  /\ Endpoints' = [Endpoints EXCEPT
                                ![ConcTarget].SandboxKey = r.ep.SandboxKey]
           /\ ret' = [ret EXCEPT
                          !.op = "return", !.pc[c] = "returned",
                          !.seen[c] = Nil, !.err[c] = r.err,
                          !.lastOk =
                              IF r.err # NoErr THEN @
                              ELSE IF ret.kind[c] = "detach" THEN "detach"
                              ELSE IF ret.key[c] # "" THEN "attach"
                              ELSE @]

\* The caller gives the lock back after the call.
Release(c) ==
    /\ ret.pc[c] = "returned"
    /\ ret' = [ret EXCEPT !.op = "unlock",
                          !.lock = IF @ = c THEN "" ELSE @,
                          !.pc[c] = "idle"]
    /\ UNCHANGED Endpoints

ConcNext ==
    \E c \in Callers :
        \/ Acquire(c)
        \/ BeginAttach(c)
        \/ BeginDetach(c)
        \/ Finish(c)
        \/ Release(c)

ConcSpec == ConcInit /\ [][ConcNext]_vars

\* The step relation of C16_Serialized.
C16_SerializedStep ==
    \A c \in Callers :
        (ret.pc[c] = "called" /\ ret'.pc[c] = "returned"
         /\ ret.kind[c] = "attach")
            => /\ (ret'.err[c] = NoErr /\ ret.key[c] # "")
                    => /\ ret.lastOk # "attach"
                       /\ Endpoints[ConcTarget].SandboxKey = ""
                       /\ Endpoints'[ConcTarget].SandboxKey = ret.key[c]
               /\ Endpoints[ConcTarget].SandboxKey # ""
                    => /\ ret'.err[c] = errEndpointInUse
                       /\ Endpoints' = Endpoints

\* C16: with every call made under the network's lock, a successful attach
\* with a non-empty key never follows another one without a successful
\* detach in between: it finds the endpoint unattached and binds its own
\* key, and an attach that finds the endpoint attached fails with
\* errEndpointInUse and leaves the first caller's key in place.
C16_Serialized == [][C16_SerializedStep]_vars

\* C16 witness: two callers attached with different keys; the first
\* succeeded, the second got errEndpointInUse and the first key is stored.
C16_Witness ==
    /\ ret.kind[CallerNames[1]] = "attach"
    /\ ret.kind[CallerNames[2]] = "attach"
    /\ ret.key[CallerNames[1]] = "k1"
    /\ ret.key[CallerNames[2]] = "k2"
    /\ ret.pc[CallerNames[1]] = "idle"
    /\ ret.pc[CallerNames[2]] = "returned"
    /\ ret.err[CallerNames[1]] = NoErr
    /\ ret.err[CallerNames[2]] = errEndpointInUse
    /\ ret.lastOk = "attach"
    /\ Endpoints[ConcTarget].SandboxKey = "k1"

=============================================================================
